---- MODULE Spec2Model ----
(***************************************************************************)
(* A state-machine model of the road-state pipeline:                       *)
(*   edge/app/usecases/data_processing.py  (classification)                *)
(*   agent/src/file_datasource.py          (cyclic CSV sample source)      *)
(*   store/main.py                         (CRUD store + websocket fan-out) *)
(*                                                                         *)
(* The three programs are separate processes; each gets its own            *)
(* specification over its own variables (the others stay at their initial  *)
(* value):                                                                 *)
(*   SpecEdge     - process_agent_data applied to drawn readings           *)
(*   SpecSource   - FileDatasource: startReading / read / stopReading      *)
(*   Spec         - store/main.py as served: the CRUD endpoints and the    *)
(*                  websocket endpoint (nothing in main.py calls           *)
(*                  send_data_to_subscribers)                              *)
(*   SpecRegistry - the websocket endpoint together with callers of        *)
(*                  send_data_to_subscribers, one asyncio task per call    *)
(***************************************************************************)
EXTENDS Integers, Sequences, FiniteSets, TLC

VARIABLES
    \* ---- edge: data_processing.py
    agent_data,     \* the AgentData handed to process_agent_data
    processed,      \* <<>> before the call, <<its result>> after
    \* ---- agent: FileDatasource
    files,          \* contents of the three CSV files: stream -> Seq(row)
    fh,             \* the three file objects: stream -> [state, pos]
    readLog,        \* results of the read() calls since the last startReading
    \* ---- store: database and HTTP endpoints
    rows,           \* table processed_agent_data: set of row records
    nextId,         \* next value of the id sequence (autoincrement)
    assigned,       \* the ids the database has assigned so far, in order
    reqs,           \* worker thread -> the PUT or DELETE request it is serving
    lastCall,       \* the last endpoint call that has ended, and its arguments
    response,       \* what that call returned or raised
    \* ---- store: websocket registry
    subscriptions,  \* user_id -> <<>> (no key) | hash table of the set of websockets
    conn,           \* websocket -> state of its connection / handler
    wsUser,         \* websocket -> user_id of its path (0 before connect)
    tasks,          \* publish call -> state of that send_data_to_subscribers task
    attempted,      \* websocket -> set of publishes whose send_json was invoked on it
    received        \* websocket -> Seq of publishes delivered to it, in order

edgeVars  == <<agent_data, processed>>
srcVars   == <<files, fh, readLog>>
storeVars == <<rows, nextId, assigned, reqs, lastCall, response>>
regVars   == <<subscriptions, conn, wsUser, tasks, attempted, received>>
vars      == <<agent_data, processed, files, fh, readLog, rows, nextId,
               assigned, reqs, lastCall, response, subscriptions, conn, wsUser, tasks,
               attempted, received>>

None == "None"

(***************************************************************************)
(* Bounds                                                                  *)
(***************************************************************************)
ZSpread      == 20   \* z values drawn within this distance of 0 and of each threshold
MaxRecords   == 3    \* most data records in one CSV file
MaxReads     == 7    \* read() calls followed after one startReading
MaxBatch     == 2    \* most records in one POST batch
MaxId        == 2    \* ids handed out before the model stops creating
MaxListeners == 2    \* websocket connections ever accepted

(***************************************************************************)
(* edge/app/usecases/data_processing.py                                    *)
(***************************************************************************)
BumpyBelow == 10000
HillyAbove == 16600

classify_road_state_le(accelerometer_data) ==
    LET z_axis_value == accelerometer_data.z IN
    IF z_axis_value <= BumpyBelow THEN "bumpy"
    ELSE IF z_axis_value > HillyAbove THEN "hilly"
    ELSE "normal"

classify_road_state(accelerometer_data) ==
    LET z_axis_value == accelerometer_data.z IN
    IF z_axis_value < BumpyBelow THEN "bumpy"
    ELSE IF z_axis_value > HillyAbove THEN "hilly"
    ELSE "normal"

\* The variant that classifies by the x axis.
process_agent_data_x_axis(data) ==
    [road_state |-> classify_road_state([z |-> data.accelerometer.x]),
     agent_data |-> data]

process_agent_data(data) ==
    [road_state |-> classify_road_state(data.accelerometer),
     agent_data |-> data]

\* z values the readings are drawn from: around 0 and around both thresholds,
\* and the 9000 of the end-to-end example.
ZValues ==
    ((0 - ZSpread) .. ZSpread)
    \cup ((BumpyBelow - ZSpread) .. (BumpyBelow + ZSpread))
    \cup ((HillyAbove - ZSpread) .. (HillyAbove + ZSpread))
    \cup {9000}

\* Coordinates are kept in tenths of a degree: 305 is 30.5.
AgentDataInputs ==
    [accelerometer : [x : {0, 5000}, y : {0}, z : ZValues],
     gps           : {[longitude |-> 305, latitude |-> 504]},
     timestamp     : {1},
     user_id       : {42}]

Process ==
    /\ processed = <<>>
    /\ processed' = <<process_agent_data(agent_data)>>
    /\ UNCHANGED <<agent_data, srcVars, storeVars, regVars>>

(***************************************************************************)
(* agent/src/file_datasource.py                                            *)
(*                                                                         *)
(* A CSV file is a sequence of rows, a row a sequence of fields, a field   *)
(* the text of one cell: an integer literal, a decimal literal (held in    *)
(* tenths) or other text.  A file object is [state, pos]: pos rows have    *)
(* been consumed.  datetime.now() is supplied by the environment and is    *)
(* left out of the reading.                                                *)
(***************************************************************************)
Streams == {"accelerometer", "gps", "parking"}

USER_ID == 42

IntField(v)   == [kind |-> "int", val |-> v]
FloatField(t) == [kind |-> "float", val |-> t]
TextField     == [kind |-> "text", val |-> 0]

Ok(v)  == [ok |-> TRUE, val |-> v]
Err(e) == [ok |-> FALSE, err |-> e]

\* int(s): only an integer literal converts.
py_int(f) == IF f.kind = "int" THEN Ok(f.val) ELSE Err("ValueError")

\* float(s): integer and decimal literals convert; the value is in tenths.
py_float(f) ==
    IF f.kind = "int" THEN Ok(f.val * 10)
    ELSE IF f.kind = "float" THEN Ok(f.val)
    ELSE Err("ValueError")

\* map(int, row) and map(float, row): the conversion of each field.
map_int(row)   == [i \in 1..Len(row) |-> py_int(row[i])]
map_float(row) == [i \in 1..Len(row) |-> py_float(row[i])]

\* a, b, c = <map>: the first n fields convert and the count is n; a failed
\* conversion and a wrong count both raise ValueError.
unpack(converted, n) ==
    IF \E i \in 1..Len(converted) : i <= n /\ ~converted[i].ok
    THEN Err("ValueError")
    ELSE IF Len(converted) # n THEN Err("ValueError")
    ELSE Ok([i \in 1..n |-> converted[i].val])

HeaderRow(s) == [i \in 1..(IF s = "gps" THEN 2 ELSE 3) |-> TextField]

GoodRow(s, i) ==
    IF s = "accelerometer" THEN <<IntField(i), IntField(0), IntField(6000 * i)>>
    ELSE IF s = "gps" THEN <<FloatField(300 + i), FloatField(500 + i)>>
    ELSE <<IntField(i), FloatField(300 + i), FloatField(500 + i)>>

\* A record that does not decode: a non-numeric field, or a missing field.
BadRow(s, i, how) ==
    IF how = "text" THEN [GoodRow(s, i) EXCEPT ![1] = TextField]
    ELSE SubSeq(GoodRow(s, i), 1, Len(GoodRow(s, i)) - 1)

CsvFile(s, n, bad, how) ==
    <<HeaderRow(s)>> \o
    [i \in 1..n |-> IF i = bad THEN BadRow(s, i, how) ELSE GoodRow(s, i)]

NotOpened == [state |-> "none", pos |-> 0]

\* next(file): the next line, or StopIteration at the end.
file_next(f, lines) ==
    IF f.pos < Len(lines)
    THEN [fh |-> [f EXCEPT !.pos = f.pos + 1], ok |-> TRUE, val |-> lines[f.pos + 1]]
    ELSE [fh |-> f, ok |-> FALSE, err |-> "StopIteration"]

\* The mutant of the wraparound that seeks back without skipping the header.
read_row_no_skip(f, lines) ==
    IF f.state = "none" THEN [fh |-> f, ok |-> FALSE, err |-> "TypeError"]
    ELSE IF f.state = "closed" THEN [fh |-> f, ok |-> FALSE, err |-> "ValueError"]
    ELSE LET first == file_next(f, lines) IN
         IF first.ok THEN first
         ELSE file_next([f EXCEPT !.pos = 0], lines)

\* The variant that reads on whatever the state of the file object.
read_row_any_state(f, lines) ==
    LET first == file_next(f, lines) IN
    IF first.ok THEN first
    ELSE LET header == file_next([f EXCEPT !.pos = 0], lines) IN
         IF ~header.ok THEN header
         ELSE file_next(header.fh, lines)

\* csv_reader = reader(file); try: row = next(csv_reader)
\* except StopIteration: file.seek(0); next(file); row = next(csv_reader)
read_row(f, lines) ==
    IF f.state = "none" THEN [fh |-> f, ok |-> FALSE, err |-> "TypeError"]
    ELSE IF f.state = "closed" THEN [fh |-> f, ok |-> FALSE, err |-> "ValueError"]
    ELSE LET first == file_next(f, lines) IN
         IF first.ok THEN first
         ELSE LET header == file_next([f EXCEPT !.pos = 0], lines) IN
              IF ~header.ok THEN header
              ELSE file_next(header.fh, lines)

Accelerometer(x, y, z) == [x |-> x, y |-> y, z |-> z]
Gps(longitude, latitude) == [longitude |-> longitude, latitude |-> latitude]
Parking(empty_count, gps) == [empty_count |-> empty_count, gps |-> gps]

decode_accelerometer(row) ==
    LET u == unpack(map_int(row), 3) IN
    IF u.ok THEN Ok(Accelerometer(u.val[1], u.val[2], u.val[3])) ELSE u

decode_gps(row) ==
    LET u == unpack(map_float(row), 2) IN
    IF u.ok THEN Ok(Gps(u.val[1], u.val[2])) ELSE u

\* int(empty_count) truncates the float toward zero.
decode_parking(row) ==
    LET u == unpack(map_float(row), 3) IN
    IF u.ok
    THEN Ok(Parking(IF u.val[1] >= 0 THEN u.val[1] \div 10
                                      ELSE 0 - ((0 - u.val[1]) \div 10),
                    Gps(u.val[2], u.val[3])))
    ELSE u

\* Each stream's reader: the row is consumed, then decoded; a decoding error
\* leaves the file object where the read put it.
read_accelerometer_data(f, lines) ==
    LET r == read_row(f, lines) IN
    IF ~r.ok THEN r ELSE [fh |-> r.fh] @@ decode_accelerometer(r.val)

read_gps_data(f, lines) ==
    LET r == read_row(f, lines) IN
    IF ~r.ok THEN r ELSE [fh |-> r.fh] @@ decode_gps(r.val)

read_parking_data(f, lines) ==
    LET r == read_row(f, lines) IN
    IF ~r.ok THEN r ELSE [fh |-> r.fh] @@ decode_parking(r.val)

\* The file triples a run starts from: 1..MaxRecords records per stream and
\* at most one record, in one stream, that does not decode.
FileSets ==
    {[s \in Streams |->
        CsvFile(s, n[s], IF s = bad[1] THEN bad[2] ELSE 0, bad[3])] :
        n \in [Streams -> 1..MaxRecords],
        bad \in ({None} \X {1} \X {"text"})
                \cup (Streams \X (1..MaxRecords) \X {"text", "short"})}

\* open(...) each file and skip its header line.
startReading ==
    /\ fh' = [s \in Streams |->
                file_next([state |-> "open", pos |-> 0], files[s]).fh]
    /\ readLog' = <<>>
    /\ UNCHANGED <<files, edgeVars, storeVars, regVars>>

stopReading ==
    /\ fh' = [s \in Streams |->
                IF fh[s].state = "none" THEN fh[s]
                ELSE [fh[s] EXCEPT !.state = "closed"]]
    /\ UNCHANGED <<files, readLog, edgeVars, storeVars, regVars>>

\* read(): the three streams in turn; the first failure propagates.
read ==
    /\ Len(readLog) < MaxReads
    /\ LET a == read_accelerometer_data(fh["accelerometer"], files["accelerometer"])
           g == read_gps_data(fh["gps"], files["gps"])
           p == read_parking_data(fh["parking"], files["parking"])
       IN  IF ~a.ok THEN
               /\ fh' = [fh EXCEPT !["accelerometer"] = a.fh]
               /\ readLog' = Append(readLog, Err(a.err))
           ELSE IF ~g.ok THEN
               /\ fh' = [fh EXCEPT !["accelerometer"] = a.fh, !["gps"] = g.fh]
               /\ readLog' = Append(readLog, Err(g.err))
           ELSE
               /\ fh' = [s \in Streams |->
                           IF s = "accelerometer" THEN a.fh
                           ELSE IF s = "gps" THEN g.fh ELSE p.fh]
               /\ readLog' = Append(readLog,
                     IF ~p.ok THEN Err(p.err)
                     ELSE Ok([accelerometer |-> a.val, gps |-> g.val,
                              parking |-> p.val, user_id |-> USER_ID]))
    /\ UNCHANGED <<files, edgeVars, storeVars, regVars>>

(***************************************************************************)
(* store/main.py: the table and the CRUD endpoints                         *)
(*                                                                         *)
(* A ProcessedAgentData payload is [road_state, agent_data]; a table row   *)
(* (ProcessedAgentDataInDB) is the flat record of the nine columns.  The   *)
(* id column is the autoincrement primary key: the database hands out      *)
(* nextId, nextId + 1, ...                                                 *)
(***************************************************************************)
Users == {1, 2}

ColumnKeys == {"id", "road_state", "user_id", "x", "y", "z",
               "latitude", "longitude", "timestamp"}

\* The payloads the endpoints are called with: road_state is free text of the
\* caller, independent of z; variant k fixes every other field.  Two
\* payloads that differ in every field are drawn.
MkPayload(rs, k) ==
    [road_state |-> rs,
     agent_data |-> [user_id       |-> k,
                     accelerometer |-> [x |-> k, y |-> 10 + k, z |-> 9000 * k],
                     gps           |-> [latitude |-> 500 + k, longitude |-> 300 + k],
                     timestamp     |-> 100 + k]]

Payloads == {MkPayload("bumpy", 1), MkPayload("hilly", 2)}

Batches == UNION {[1..n -> Payloads] : n \in 0..MaxBatch}

\* ProcessedAgentDataInDB(road_state=item.road_state, user_id=..., ...)
new_db_object(item, id) ==
    [id         |-> id,
     road_state |-> item.road_state,
     user_id    |-> item.agent_data.user_id,
     x          |-> item.agent_data.accelerometer.x,
     y          |-> item.agent_data.accelerometer.y,
     z          |-> item.agent_data.accelerometer.z,
     latitude   |-> item.agent_data.gps.latitude,
     longitude  |-> item.agent_data.gps.longitude,
     timestamp  |-> item.agent_data.timestamp]

\* An ORM instance as the endpoint holds it: its column values are loaded, or
\* it was expired by commit() and then detached when the session block closed.
Loaded(row) == [loaded |-> TRUE, row |-> row]
ExpiredDetached == [loaded |-> FALSE]

\* Reading a column of an expired, detached instance raises.
db_model_to_response_model(db_model) ==
    IF ~db_model.loaded THEN Err("DetachedInstanceError")
    ELSE LET r == db_model.row IN
         Ok([id         |-> r.id,
             road_state |-> r.road_state,
             agent_data |-> [user_id       |-> r.user_id,
                             accelerometer |-> [x |-> r.x, y |-> r.y, z |-> r.z],
                             gps           |-> [latitude |-> r.latitude,
                                                longitude |-> r.longitude],
                             timestamp     |-> r.timestamp]])

\* [db_model_to_response_model(m) for m in db_models]: the first raise propagates.
db_models_to_response_models(db_models) ==
    IF \E i \in 1..Len(db_models) : ~db_model_to_response_model(db_models[i]).ok
    THEN Err("DetachedInstanceError")
    ELSE Ok([i \in 1..Len(db_models) |->
                db_model_to_response_model(db_models[i]).val])

\* session.query(...).filter(id == wanted).first(): <<>> stands for None.
query_first(table, wanted) ==
    IF \E r \in table : r.id = wanted
    THEN <<CHOOSE r \in table : r.id = wanted>>
    ELSE <<>>

\* for key, value in data.dict().items(): setattr(db_data, key, value)
\* data.dict() has the keys road_state and agent_data; only an attribute that
\* is a mapped column reaches the table at commit.
setattr_items(db_data, data) ==
    [k \in ColumnKeys |-> IF k \in DOMAIN data THEN data[k] ELSE db_data[k]]

Call(op, id, data, firstId) ==
    [op |-> op, id |-> id, data |-> data, firstId |-> firstId]

\* The endpoints are plain functions, which the server runs in worker
\* threads, each with a session of its own.  POST, PUT and DELETE make several
\* database calls; other requests can run between two of them.  A thread is
\* idle or holds its request: the path id (for POST the first id drawn), the
\* body, and db_data, the instance as first() loaded it (for POST the
\* db_objects with the ids the INSERT returned).
Reqs == {1, 2}

IdleReq == [op |-> "idle", pc |-> "", id |-> 0, data |-> <<>>, db_data |-> <<>>]

\* A request is taken by the first idle thread.
Free(r) == reqs[r].op = "idle" /\ \A q \in Reqs : q < r => reqs[q].op # "idle"

\* The variant of the insert on a table whose key is one more than the
\* largest key present, instead of the next value of a sequence.
create_processed_agent_data_max_plus_one ==
    \E r \in Reqs, data \in Batches :
        /\ Free(r)
        /\ Len(assigned) + Len(data) <= MaxId
        /\ LET top == IF rows = {} THEN 0
                      ELSE CHOOSE i \in {x.id : x \in rows} :
                               \A x \in rows : x.id <= i
               db_objects == [i \in 1..Len(data) |->
                                new_db_object(data[i], top + i)]
           IN  IF Len(data) = 0
               THEN /\ response' = db_models_to_response_models(<<>>)
                    /\ lastCall' = Call("create", 0, data, top + 1)
                    /\ UNCHANGED <<reqs, nextId, assigned>>
               ELSE /\ nextId' = top + Len(data) + 1
                    /\ assigned' = assigned \o
                                      [i \in 1..Len(data) |-> db_objects[i].id]
                    /\ reqs' = [reqs EXCEPT ![r] =
                                   [op |-> "create", pc |-> "commit",
                                    id |-> top + 1, data |-> data,
                                    db_data |-> db_objects]]
                    /\ UNCHANGED <<lastCall, response>>
        /\ UNCHANGED <<rows, edgeVars, srcVars, regVars>>

\* POST /processed_agent_data/, up to the flush inside session.commit():
\* INSERT ... RETURNING id draws each id from the table's sequence, at once
\* and whatever becomes of the transaction; the rows are not yet visible to
\* other sessions.  An empty batch sends nothing and answers [].
create_processed_agent_data ==
    \E r \in Reqs, data \in Batches :
        /\ Free(r)
        /\ nextId + Len(data) - 1 <= MaxId
        /\ LET db_objects == [i \in 1..Len(data) |->
                                new_db_object(data[i], nextId + i - 1)]
           IN  IF Len(data) = 0
               THEN /\ response' = db_models_to_response_models(<<>>)
                    /\ lastCall' = Call("create", 0, data, nextId)
                    /\ UNCHANGED <<reqs, nextId, assigned>>
               ELSE /\ nextId' = nextId + Len(data)
                    /\ assigned' = assigned \o
                                      [i \in 1..Len(data) |-> db_objects[i].id]
                    /\ reqs' = [reqs EXCEPT ![r] =
                                   [op |-> "create", pc |-> "commit",
                                    id |-> nextId, data |-> data,
                                    db_data |-> db_objects]]
                    /\ UNCHANGED <<lastCall, response>>
        /\ UNCHANGED <<rows, edgeVars, srcVars, regVars>>

\* The COMMIT of the POST makes the rows visible; the response is built from
\* db_objects after the session block has closed.
create_processed_agent_data_commit ==
    \E r \in Reqs :
        /\ reqs[r].op = "create" /\ reqs[r].pc = "commit"
        /\ LET db_objects == reqs[r].db_data IN
           /\ rows' = rows \cup {db_objects[i] : i \in 1..Len(db_objects)}
           /\ response' = db_models_to_response_models(
                              [i \in 1..Len(db_objects) |-> ExpiredDetached])
        /\ lastCall' = Call("create", 0, reqs[r].data, reqs[r].id)
        /\ reqs' = [reqs EXCEPT ![r] = IdleReq]
        /\ UNCHANGED <<nextId, assigned, edgeVars, srcVars, regVars>>

\* GET /processed_agent_data/{id}
read_result(table, id) ==
    LET result == query_first(table, id) IN
    IF result = <<>> THEN Err("404")
    ELSE db_model_to_response_model(Loaded(result[1]))

read_processed_agent_data ==
    \E id \in 1..MaxId :
        /\ response' = read_result(rows, id)
        /\ lastCall' = Call("read", id, <<>>, 0)
        /\ UNCHANGED <<rows, nextId, assigned, reqs, edgeVars, srcVars, regVars>>

\* GET /processed_agent_data/ : every row; the order is the database's, so
\* the body is kept as a set.
list_processed_agent_data ==
    /\ response' = Ok({db_model_to_response_model(Loaded(r)).val : r \in rows})
    /\ lastCall' = Call("list", 0, <<>>, 0)
    /\ UNCHANGED <<rows, nextId, assigned, reqs, edgeVars, srcVars, regVars>>

\* The row the flush writes: UPDATE ... SET <the columns whose attribute
\* differs from what was loaded> WHERE id = ..., applied to the row as it is
\* in the table now.
flush_update(current, db_data, changed) ==
    [k \in ColumnKeys |-> IF changed[k] # db_data[k] THEN changed[k]
                          ELSE current[k]]

\* PUT /processed_agent_data/{id}, up to the lookup: 404, or the instance is
\* loaded and the attributes are set on it.
update_processed_agent_data ==
    \E r \in Reqs, id \in 1..MaxId, data \in Payloads :
        /\ Free(r)
        /\ LET found == query_first(rows, id) IN
           IF found = <<>>
           THEN /\ response' = Err("404")
                /\ lastCall' = Call("update", id, <<data>>, 0)
                /\ UNCHANGED reqs
           ELSE /\ reqs' = [reqs EXCEPT ![r] =
                               [op |-> "update", pc |-> "commit", id |-> id,
                                data |-> data, db_data |-> found[1]]]
                /\ UNCHANGED <<lastCall, response>>
        /\ UNCHANGED <<rows, nextId, assigned, edgeVars, srcVars, regVars>>

\* session.commit() of the PUT: the flush emits an UPDATE when a column
\* attribute differs from the loaded value; an UPDATE that matches no row
\* raises StaleDataError.
update_processed_agent_data_commit ==
    \E r \in Reqs :
        /\ reqs[r].op = "update" /\ reqs[r].pc = "commit"
        /\ LET db_data == reqs[r].db_data
               changed == setattr_items(db_data, reqs[r].data)
               current == query_first(rows, reqs[r].id)
           IN  IF changed = db_data
               THEN /\ reqs' = [reqs EXCEPT ![r].pc = "refresh"]
                    /\ UNCHANGED <<rows, lastCall, response>>
               ELSE IF current = <<>>
               THEN /\ reqs' = [reqs EXCEPT ![r] = IdleReq]
                    /\ response' = Err("StaleDataError")
                    /\ lastCall' = Call("update", reqs[r].id, <<reqs[r].data>>, 0)
                    /\ UNCHANGED rows
               ELSE /\ rows' = (rows \ {current[1]})
                                 \cup {flush_update(current[1], db_data, changed)}
                    /\ reqs' = [reqs EXCEPT ![r].pc = "refresh"]
                    /\ UNCHANGED <<lastCall, response>>
        /\ UNCHANGED <<nextId, assigned, edgeVars, srcVars, regVars>>

\* session.refresh(db_data) and the response of the PUT: the row is read
\* again in a new transaction; InvalidRequestError when it is gone.
update_processed_agent_data_refresh ==
    \E r \in Reqs :
        /\ reqs[r].op = "update" /\ reqs[r].pc = "refresh"
        /\ LET current == query_first(rows, reqs[r].id) IN
           response' = IF current = <<>> THEN Err("InvalidRequestError")
                       ELSE db_model_to_response_model(Loaded(current[1]))
        /\ lastCall' = Call("update", reqs[r].id, <<reqs[r].data>>, 0)
        /\ reqs' = [reqs EXCEPT ![r] = IdleReq]
        /\ UNCHANGED <<rows, nextId, assigned, edgeVars, srcVars, regVars>>

\* DELETE /processed_agent_data/{id}, up to the lookup: 404, or the instance
\* is loaded and marked for deletion.
delete_processed_agent_data ==
    \E r \in Reqs, id \in 1..MaxId :
        /\ Free(r)
        /\ LET found == query_first(rows, id) IN
           IF found = <<>>
           THEN /\ response' = Err("404")
                /\ lastCall' = Call("delete", id, <<>>, 0)
                /\ UNCHANGED reqs
           ELSE /\ reqs' = [reqs EXCEPT ![r] =
                               [op |-> "delete", pc |-> "commit", id |-> id,
                                data |-> <<>>, db_data |-> found[1]]]
                /\ UNCHANGED <<lastCall, response>>
        /\ UNCHANGED <<rows, nextId, assigned, edgeVars, srcVars, regVars>>

\* session.commit() of the DELETE and its response: DELETE ... WHERE id = ...
\* (a DELETE that matches no row only warns); the deleted instance keeps the
\* column values it was loaded with.
delete_processed_agent_data_commit ==
    \E r \in Reqs :
        /\ reqs[r].op = "delete" /\ reqs[r].pc = "commit"
        /\ rows' = {x \in rows : x.id # reqs[r].id}
        /\ response' = db_model_to_response_model(Loaded(reqs[r].db_data))
        /\ lastCall' = Call("delete", reqs[r].id, <<>>, 0)
        /\ reqs' = [reqs EXCEPT ![r] = IdleReq]
        /\ UNCHANGED <<nextId, assigned, edgeVars, srcVars, regVars>>

(***************************************************************************)
(* store/main.py: the websocket registry                                   *)
(*                                                                         *)
(* subscriptions[user_id] is a Python set.  Its hash table is a row of     *)
(* slots, each holding a websocket or 0 (never used, or freed by remove);  *)
(* iteration walks the slots in order.  Which free slot add() takes is     *)
(* decided by the object's hash, so it is any free slot.  With at most     *)
(* MaxListeners websockets ever added the table is never resized, and as   *)
(* many slots as websockets give every relative order.                     *)
(***************************************************************************)
WS        == 1..MaxListeners
Pubs      == {1, 2}     \* two calls of send_data_to_subscribers, A then B
TableSize == MaxListeners

EmptyTable == [i \in 1..TableSize |-> 0]

set_members(t) == {t[i] : i \in 1..Len(t)} \ {0}
set_used(t)    == Cardinality(set_members(t))

\* set.add(key): the tables that can result.
set_add(t, key) ==
    IF key \in set_members(t) THEN {t}
    ELSE {[t EXCEPT ![i] = key] : i \in {j \in 1..Len(t) : t[j] = 0}}

\* set.remove(key): KeyError when absent.
set_remove(t, key) ==
    IF key \notin set_members(t) THEN Err("KeyError")
    ELSE Ok([i \in 1..Len(t) |-> IF t[i] = key THEN 0 ELSE t[i]])

\* iter(set): the iterator remembers the size and the slot it has reached.
set_iter(t) == [si_used |-> set_used(t), si_pos |-> 0]

\* next(iterator): RuntimeError when the size changed since iter(); else the
\* key of the next occupied slot, or StopIteration.
setiter_next(it, t) ==
    IF it.si_used # set_used(t)
    THEN [kind |-> "raise", it |-> it, key |-> 0]
    ELSE LET ahead == {i \in (it.si_pos + 1)..Len(t) : t[i] # 0} IN
         IF ahead = {} THEN [kind |-> "stop", it |-> it, key |-> 0]
         ELSE LET i == CHOOSE j \in ahead : \A k \in ahead : j <= k IN
              [kind |-> "key", it |-> [it EXCEPT !.si_pos = i], key |-> t[i]]

Members(u) == IF subscriptions[u] = <<>> THEN {} ELSE set_members(subscriptions[u])

\* websocket.send_json raises once the server has closed the socket, which it
\* does when the handler has ended.
SendFails(w) == conn[w] \in {"crashed", "closed"}

\* A task: where the call stands, its user_id, its set iterator (dropped when
\* the coroutine has ended), the exception
\* that ended it, and (for stating properties) the websockets that were in the
\* user's set, and those already removed from it, when the call was made.
NoIterator == [si_used |-> 0, si_pos |-> 0]
IdleTask == [state |-> "idle", user |-> 0, it |-> NoIterator,
             err |-> "", atCall |-> {}, goneAtCall |-> {}]

Gone(u) == {w \in WS : wsUser[w] = u /\ conn[w] = "closed"}

\* User ids are interchangeable: a run names them in increasing order, so a
\* connection or a call may name user u once every smaller id has been named.
Named(u) == (\E w \in WS : wsUser[w] = u) \/ (\E p \in Pubs : tasks[p].user = u)
NextUser(u) == \A v \in Users : v < u => Named(v)

\* websocket_endpoint up to its first receive_text: accept, create the user's
\* set if the key is missing, add the websocket.  Connections are numbered in
\* the order they are accepted.
websocket_endpoint_connect ==
    \E w \in WS, user_id \in Users :
        /\ conn[w] = "idle"
        /\ \A v \in WS : v < w => conn[v] # "idle"
        /\ NextUser(user_id)
        /\ conn' = [conn EXCEPT ![w] = "open"]
        /\ wsUser' = [wsUser EXCEPT ![w] = user_id]
        /\ \E t \in set_add(IF subscriptions[user_id] = <<>> THEN EmptyTable
                            ELSE subscriptions[user_id], w) :
              subscriptions' = [subscriptions EXCEPT ![user_id] = t]
        /\ UNCHANGED <<tasks, attempted, received, edgeVars, srcVars, storeVars>>

\* The mutant of the disconnect branch that leaves the websocket in the set.
unsubscribe_forgotten(user_id, w) == subscriptions

\* except WebSocketDisconnect: subscriptions[user_id].remove(websocket)
unsubscribe(user_id, w) ==
    [subscriptions EXCEPT
        ![user_id] = set_remove(subscriptions[user_id], w).val]

\* receive_text raises WebSocketDisconnect: the handler removes the websocket
\* and ends; if the websocket is not in the set, remove raises KeyError out
\* of the handler.
websocket_endpoint_disconnect ==
    \E w \in WS :
        /\ conn[w] = "open"
        /\ IF set_remove(subscriptions[wsUser[w]], w).ok
           THEN /\ subscriptions' = unsubscribe(wsUser[w], w)
                /\ conn' = [conn EXCEPT ![w] = "closed"]
           ELSE /\ UNCHANGED subscriptions
                /\ conn' = [conn EXCEPT ![w] = "crashed"]
        /\ UNCHANGED <<wsUser, tasks, attempted, received,
                       edgeVars, srcVars, storeVars>>

\* receive_text raises anything else (a frame that is not text, a transport
\* error, cancellation): no except clause matches, the handler ends and the
\* server closes the socket.
websocket_endpoint_error ==
    \E w \in WS :
        /\ conn[w] = "open"
        /\ conn' = [conn EXCEPT ![w] = "crashed"]
        /\ UNCHANGED <<subscriptions, wsUser, tasks, attempted, received,
                       edgeVars, srcVars, storeVars>>

\* One turn of "for websocket in subscriptions[user_id]: await send_json":
\* next() on the set iterator, then the send, at which the task suspends.
loop_turn(p, task) ==
    LET n == setiter_next(task.it, subscriptions[task.user]) IN
    IF n.kind = "raise" THEN
        /\ tasks' = [tasks EXCEPT ![p] =
                        [task EXCEPT !.state = "failed", !.err = "RuntimeError",
                                     !.it = NoIterator]]
        /\ UNCHANGED <<attempted, received>>
    ELSE IF n.kind = "stop" THEN
        /\ tasks' = [tasks EXCEPT ![p] =
                        [task EXCEPT !.state = "done", !.it = NoIterator]]
        /\ UNCHANGED <<attempted, received>>
    ELSE
        /\ attempted' = [attempted EXCEPT ![n.key] = @ \cup {p}]
        /\ IF SendFails(n.key)
           THEN /\ tasks' = [tasks EXCEPT ![p] =
                        [task EXCEPT !.state = "failed", !.err = "SendError",
                                     !.it = NoIterator]]
                /\ UNCHANGED received
           ELSE /\ tasks' = [tasks EXCEPT ![p] =
                        [task EXCEPT !.state = "running", !.it = n.it]]
                /\ received' = [received EXCEPT ![n.key] = Append(@, p)]

\* send_data_to_subscribers(user_id, data) is called: calls are numbered in
\* call order and the data published by call p is p.
send_data_to_subscribers_call ==
    \E p \in Pubs, user_id \in Users :
        /\ tasks[p].state = "idle"
        /\ \A q \in Pubs : q < p => tasks[q].state # "idle"
        /\ NextUser(user_id)
        /\ IF subscriptions[user_id] = <<>>
           THEN /\ tasks' = [tasks EXCEPT ![p] =
                     [IdleTask EXCEPT !.state = "done", !.user = user_id,
                                      !.goneAtCall = Gone(user_id)]]
                /\ UNCHANGED <<attempted, received>>
           ELSE loop_turn(p, [state  |-> "running",
                              user   |-> user_id,
                              it     |-> set_iter(subscriptions[user_id]),
                              err    |-> "",
                              atCall |-> Members(user_id),
                              goneAtCall |-> Gone(user_id)])
        /\ UNCHANGED <<subscriptions, conn, wsUser, edgeVars, srcVars, storeVars>>

\* The awaited send returns and the loop goes on.
send_data_to_subscribers_resume ==
    \E p \in Pubs :
        /\ tasks[p].state = "running"
        /\ loop_turn(p, tasks[p])
        /\ UNCHANGED <<subscriptions, conn, wsUser, edgeVars, srcVars, storeVars>>

(***************************************************************************)
(* Specifications.  Every one starts from the state after construction:    *)
(* no reading processed, files not opened, an empty table whose id         *)
(* sequence starts at 1, no subscriptions.  The part a specification runs  *)
(* draws its inputs; the other parts stay as constructed.                  *)
(***************************************************************************)
OneReading == [accelerometer |-> [x |-> 0, y |-> 0, z |-> 0],
               gps |-> [longitude |-> 305, latitude |-> 504],
               timestamp |-> 1, user_id |-> 42]
OneFileSet == [s \in Streams |-> CsvFile(s, 1, 0, "text")]
NoCall     == Call("none", 0, <<>>, 0)

Constructed(readings, filesets) ==
    /\ agent_data \in readings
    /\ processed = <<>>
    /\ files \in filesets
    /\ fh = [s \in Streams |-> NotOpened]
    /\ readLog = <<>>
    /\ rows = {}
    /\ nextId = 1
    /\ assigned = <<>>
    /\ reqs = [r \in Reqs |-> IdleReq]
    /\ lastCall = NoCall
    /\ response = Err("no call")
    /\ subscriptions = [u \in Users |-> <<>>]
    /\ conn = [w \in WS |-> "idle"]
    /\ wsUser = [w \in WS |-> 0]
    /\ tasks = [p \in Pubs |-> IdleTask]
    /\ attempted = [w \in WS |-> {}]
    /\ received = [w \in WS |-> <<>>]

EdgeInit     == Constructed(AgentDataInputs, {OneFileSet})
SourceInit   == Constructed({OneReading}, FileSets)
Init         == Constructed({OneReading}, {OneFileSet})

EdgeNext == Process

SourceNext ==
    \/ startReading
    \/ read
    \/ stopReading

\* store/main.py as served: nothing calls send_data_to_subscribers.
Next ==
    \/ create_processed_agent_data
    \/ create_processed_agent_data_commit
    \/ read_processed_agent_data
    \/ list_processed_agent_data
    \/ update_processed_agent_data
    \/ update_processed_agent_data_commit
    \/ update_processed_agent_data_refresh
    \/ delete_processed_agent_data
    \/ delete_processed_agent_data_commit

\* The websocket endpoint and callers of send_data_to_subscribers.
RegistryNext ==
    \/ websocket_endpoint_connect
    \/ websocket_endpoint_disconnect
    \/ websocket_endpoint_error
    \/ send_data_to_subscribers_call
    \/ send_data_to_subscribers_resume

SpecEdge     == EdgeInit /\ [][EdgeNext]_vars
SpecSource   == SourceInit /\ [][SourceNext]_vars
Spec         == Init /\ [][Next]_vars
SpecRegistry == Init /\ [][RegistryNext]_vars

(***************************************************************************)
(* Properties                                                              *)
(***************************************************************************)

\* C1: classify_road_state is total and decided by z alone: below 10000 it
\* gives "bumpy", above 16600 "hilly", and "normal" in between, both
\* boundaries included.
C1_ClassifyByThresholds ==
    processed # <<>> =>
        LET z  == agent_data.accelerometer.z
            rs == processed[1].road_state
        IN  /\ rs \in {"bumpy", "normal", "hilly"}
            /\ (z < 10000 <=> rs = "bumpy")
            /\ (z > 16600 <=> rs = "hilly")
            /\ (z = 10000 \/ z = 16600 => rs = "normal")
            /\ (z = 16601 => rs = "hilly")

C1_Witness ==
    /\ processed # <<>>
    /\ agent_data.accelerometer.z = 10000
    /\ processed[1].road_state = "normal"

\* The decoded first data record of each stream.
FirstRecord ==
    [accelerometer |-> [x |-> 1, y |-> 0, z |-> 6000],
     gps           |-> [longitude |-> 301, latitude |-> 501],
     parking       |-> [empty_count |-> 1,
                        gps |-> [longitude |-> 301, latitude |-> 501]]]

NRecords(s) == Len(files[s]) - 1
AllDecodable ==
    \A s \in Streams : \A i \in 1..NRecords(s) : files[s][i + 1] = GoodRow(s, i)
AllOpen == \A s \in Streams : fh[s].state = "open"

\* C2: with N >= 1 data records in a stream, the (N+1)-th read after
\* startReading returns for that stream the first data record again, as the
\* 1st read did, and so does the (2N+1)-th; the header row is never returned
\* as data, and after a wrap exactly the header and one record are consumed.
C2_WrapsToFirstRecord ==
    (AllOpen /\ AllDecodable) =>
        \A s \in Streams :
            LET n == NRecords(s) IN
            /\ \A k \in 1..Len(readLog) : readLog[k].ok
            /\ \A k \in {1, n + 1, 2 * n + 1} :
                  k <= Len(readLog) => readLog[k].val[s] = FirstRecord[s]
            /\ Len(readLog) \in {n + 1, 2 * n + 1} => fh[s].pos = 2

C2_Witness ==
    /\ AllOpen /\ AllDecodable
    /\ NRecords("accelerometer") = 2
    /\ Len(readLog) = 3
    /\ readLog[3].ok
    /\ readLog[3].val.accelerometer = readLog[1].val.accelerometer
    /\ readLog[2].val.accelerometer # readLog[1].val.accelerometer

\* What the caller supplied, as the response record with the given id.
Supplied(item, id) ==
    [id |-> id, road_state |-> item.road_state, agent_data |-> item.agent_data]

\* C3: create_processed_agent_data on K records returns K records, in input
\* order, whose ids are pairwise distinct and were never assigned before.
C3_CreateReturnsFreshIds ==
    lastCall.op = "create" =>
        /\ response.ok
        /\ Len(response.val) = Len(lastCall.data)
        /\ \A i \in 1..Len(lastCall.data) :
              /\ response.val[i] = Supplied(lastCall.data[i], response.val[i].id)
              /\ response.val[i].id \notin 1..(lastCall.firstId - 1)
              /\ \A j \in 1..Len(lastCall.data) :
                    i # j => response.val[i].id # response.val[j].id

\* C4: after update_processed_agent_data(id, data) on an existing id,
\* read_processed_agent_data(id) returns exactly the supplied values for all
\* fields, road_state verbatim.
C4_UpdateThenReadReturnsSupplied ==
    (lastCall.op = "update" /\ response.ok) =>
        /\ read_result(rows, lastCall.id).ok
        /\ read_result(rows, lastCall.id).val = Supplied(lastCall.data[1], lastCall.id)

\* C5: once a create or an update has committed, send_data_to_subscribers
\* has been called for the user_id of every record it wrote.
C5_CommittedRecordsArePublished ==
    \A i \in 1..Len(lastCall.data) :
        (lastCall.op = "create" \/ (lastCall.op = "update" /\ response.ok)) =>
            \E p \in Pubs :
                /\ tasks[p].state # "idle"
                /\ tasks[p].user = lastCall.data[i].agent_data.user_id

Finished(p) == tasks[p].state \in {"done", "failed"}
Occurrences(seq, x) == Cardinality({i \in 1..Len(seq) : seq[i] = x})

\* C6: with two listeners L1 and L2 in the user's set and the set left alone
\* during the publish, a send to L1 that raises does not keep the record from
\* L2, whose send works, and no exception leaves send_data_to_subscribers.
C6_FailureIsIsolated ==
    \A p \in Pubs : \A L1, L2 \in WS :
        (/\ Finished(p)
         /\ Members(tasks[p].user) = tasks[p].atCall
         /\ L1 # L2 /\ {L1, L2} \subseteq tasks[p].atCall
         /\ SendFails(L1) /\ ~SendFails(L2)) =>
            /\ tasks[p].state = "done"
            /\ Occurrences(received[L2], p) = 1

\* C7: a listener subscribed to the user throughout a publish has received
\* its record exactly once when the publish has ended, and a listener that was
\* already removed when the publish was called gets nothing from it.
C7_ExactlyOnceWhileSubscribed ==
    \A p \in Pubs : \A w \in WS :
        /\ (Finished(p) /\ w \in tasks[p].atCall /\ conn[w] = "open") =>
              Occurrences(received[w], p) = 1
        /\ w \in tasks[p].goneAtCall => p \notin attempted[w]

\* C8: every listener that has received the records of two publish calls has
\* received them in call order.
C8_DeliveredInPublishOrder ==
    \A w \in WS : \A i, j \in 1..Len(received[w]) :
        i < j => received[w][i] < received[w][j]

\* C9: once a listener's removal from the user's set has completed, no send
\* to it is started any more, whatever publishes are in progress.
C9_NoSendAfterRemoval ==
    [][\A w \in WS : conn[w] = "closed" => attempted'[w] = attempted[w]]_vars

\* A publish that had the listener in its set when called went on after the
\* listener was removed, and did not send to it.
C9_Witness ==
    \E p \in Pubs, w \in WS :
        /\ conn[w] = "closed"
        /\ w \in tasks[p].atCall
        /\ tasks[p].state = "failed" /\ tasks[p].err = "RuntimeError"
        /\ p \notin attempted[w]

\* C10: the handle of a connection that has ended, by a disconnect or by any
\* other termination of its handler, is no longer in subscriptions[user_id].
C10_EndedConnectionIsRemoved ==
    \A w \in WS :
        conn[w] \in {"closed", "crashed"} => w \notin Members(wsUser[w])
\* The ids of the records in the table.
StoredIds == {r.id : r \in rows}

\* C11: whatever creates and deletes have happened, no id was assigned twice:
\* an id once given to a record is never given to a later-created record,
\* also when the record that held it, the highest one included, was deleted.
C11_IdsNeverReused ==
    \A i, j \in 1..Len(assigned) : i # j => assigned[i] # assigned[j]

\* With no request in flight: the record that held the highest id drawn
\* before the last POST is deleted, and the record of that POST is stored
\* under a higher id.
C11_Witness ==
    /\ lastCall.op = "create" /\ Len(lastCall.data) >= 1
    /\ \A r \in Reqs : reqs[r].op = "idle"
    /\ Len(assigned) > Len(lastCall.data)
    /\ LET before == Len(assigned) - Len(lastCall.data) IN
       /\ assigned[before] \notin StoredIds
       /\ \A k \in 1..before : assigned[k] <= assigned[before]
       /\ assigned[before + 1] > assigned[before]
       /\ assigned[before + 1] \in StoredIds

\* C12: a delete_processed_agent_data that found its id answers with the
\* record as it is stored when the delete removes it, removes exactly that
\* record and leaves every other row as it was; read_processed_agent_data on
\* the same id then fails with 404.
C12_DeleteReturnsAndRemoves ==
    [][\A r \in Reqs :
         (reqs[r].op = "delete" /\ reqs'[r].op = "idle") =>
             LET id == reqs[r].id IN
             /\ response' = read_result(rows, id)
             /\ response'.ok /\ response'.val.id = id
             /\ rows' = {x \in rows : x.id # id}
             /\ read_result(rows', id) = Err("404")]_vars

\* The record the next read of stream s decodes, and whether it decodes.
RowAhead(f, lines) == read_row(f, lines).val
Decodes(s, row) ==
    IF s = "accelerometer" THEN decode_accelerometer(row).ok
    ELSE IF s = "gps" THEN decode_gps(row).ok
    ELSE decode_parking(row).ok
BadAhead(s) == ~Decodes(s, RowAhead(fh[s], files[s]))

\* The stream whose record makes the next read fail: read decodes the
\* accelerometer record first, then gps, then parking.
FailsOn(s) ==
    /\ AllOpen
    /\ BadAhead(s)
    /\ s = "gps" => ~BadAhead("accelerometer")
    /\ s = "parking" => ~BadAhead("accelerometer") /\ ~BadAhead("gps")

IsReadStep == Len(readLog') = Len(readLog) + 1

\* C13: a read that meets a record that does not decode (a field that is not
\* a number, a wrong number of fields) fails with the decoding error and
\* leaves that stream's cursor before the bad record: the next read of the
\* stream meets the same record again.
C13_BadRecordNotConsumed ==
    [][\A s \in Streams :
         (IsReadStep /\ FailsOn(s)) =>
             /\ readLog'[Len(readLog')] = Err("ValueError")
             /\ fh'[s] = fh[s]
             /\ RowAhead(fh'[s], files[s]) = RowAhead(fh[s], files[s])]_vars
\* C14: read before startReading, and read after stopReading, raises and
\* returns no reading (TypeError from reader(None), ValueError from the closed
\* file), and moves no cursor: no data comes from a stream that is not open.
C14_ReadNeedsOpenStreams ==
    [][(IsReadStep /\ ~AllOpen) =>
          /\ ~readLog'[Len(readLog')].ok
          /\ fh["accelerometer"].state = "none" =>
                 readLog'[Len(readLog')] = Err("TypeError")
          /\ fh["accelerometer"].state = "closed" =>
                 readLog'[Len(readLog')] = Err("ValueError")
          /\ fh' = fh]_vars

\* Reads succeeded, stopReading closed the files, and the read after it
\* raised.
C14_Witness ==
    /\ AllDecodable
    /\ \A s \in Streams : fh[s].state = "closed"
    /\ Len(readLog) >= 2
    /\ readLog[1].ok
    /\ readLog[Len(readLog)] = Err("ValueError")
\* The reading of the end-to-end example: accelerometer (5000, 0, 9000),
\* gps (30.5, 50.4), user 42.
ExampleReading ==
    [accelerometer |-> [x |-> 5000, y |-> 0, z |-> 9000],
     gps |-> [longitude |-> 305, latitude |-> 504],
     timestamp |-> 1, user_id |-> 42]

\* C16: the record process_agent_data returns has the road_state that
\* classify_road_state gives for the reading's z, carries the reading's
\* accelerometer, gps, timestamp and user_id unchanged, and has no id; the
\* example reading gives "bumpy".
C16_ProcessCopiesReading ==
    processed # <<>> =>
        LET out == processed[1] IN
        /\ DOMAIN out = {"road_state", "agent_data"}
        /\ out.road_state = classify_road_state(agent_data.accelerometer)
        /\ out.agent_data.accelerometer = agent_data.accelerometer
        /\ out.agent_data.gps = agent_data.gps
        /\ out.agent_data.timestamp = agent_data.timestamp
        /\ out.agent_data.user_id = agent_data.user_id
        /\ agent_data = ExampleReading =>
              out = [road_state |-> "bumpy", agent_data |-> ExampleReading]

C16_Witness ==
    /\ processed # <<>>
    /\ agent_data = ExampleReading
    /\ processed[1].road_state = "bumpy"
    /\ processed[1].agent_data.user_id = 42
\* C17: a publish for user u reaches only websockets that were in u's set
\* when send_data_to_subscribers was called: with no subscriber at the call
\* nothing is sent and nothing is kept for later, so a websocket that joins
\* u's set afterwards gets nothing of that publish, and a websocket of
\* another user never gets it.
C17_OnlyListenersAtCallTime ==
    \A p \in Pubs : \A w \in WS :
        /\ p \in attempted[w] => w \in tasks[p].atCall
        /\ p \in attempted[w] => wsUser[w] = tasks[p].user
        /\ (tasks[p].state # "idle" /\ tasks[p].atCall = {}) =>
              /\ tasks[p].state = "done"
              /\ p \notin attempted[w]
\* The decoded i-th data record of stream s of a decodable file.
Record(s, i) ==
    IF s = "accelerometer" THEN [x |-> i, y |-> 0, z |-> 6000 * i]
    ELSE IF s = "gps" THEN [longitude |-> 300 + i, latitude |-> 500 + i]
    ELSE [empty_count |-> i, gps |-> [longitude |-> 300 + i, latitude |-> 500 + i]]

\* The number of reads since startReading that returned a reading.
Successes(log) == Cardinality({j \in 1..Len(log) : log[j].ok})

\* C18: with Na, Ng and Np data records, the k-th successful read after
\* startReading returns, for each stream on its own, record number
\* ((k - 1) mod N) + 1 of that stream; each cursor moves by its own stream's
\* length only, so a wraparound of one stream leaves the cursors of the
\* others where an ordinary read puts them.
C18_StreamsCycleIndependently ==
    [][(IsReadStep /\ AllOpen /\ readLog'[Len(readLog')].ok) =>
          LET k == Successes(readLog') IN
          \A s \in Streams :
              /\ readLog'[Len(readLog')].val[s] =
                     Record(s, ((k - 1) % NRecords(s)) + 1)
              /\ fh'[s].pos = IF fh[s].pos = Len(files[s]) THEN 2
                              ELSE fh[s].pos + 1]_vars

\* C19: a publish works on the user's set as it was when
\* send_data_to_subscribers was called: with every send working, websockets
\* joining or leaving the set while the publish is suspended neither make it
\* raise nor keep it from sending to each websocket that was in the set at
\* the call and has not been removed since.
C19_PublishSeesSnapshot ==
    \A p \in Pubs :
        (Finished(p) /\ \A w \in WS : conn[w] # "crashed") =>
            /\ tasks[p].state = "done"
            /\ \A w \in tasks[p].atCall :
                  conn[w] = "open" => p \in attempted[w]
\* C20: a read that fails on a record that does not decode, in whichever of
\* the three streams, leaves the cursors of all three streams where they were
\* before the call, so a retried read pairs the records at the same
\* positions.
C20_FailedReadMovesNoCursor ==
    [][(IsReadStep /\ AllOpen /\ ~readLog'[Len(readLog')].ok) =>
          \A s \in Streams :
              /\ fh'[s] = fh[s]
              /\ RowAhead(fh'[s], files[s]) = RowAhead(fh[s], files[s])]_vars
====
